---- MODULE Spec2Model ----
(***************************************************************************)
(* Model of doc-flow-reorder: the WordProcessor class (load / export of a  *)
(* .docx package), the FileUploader that drives it, and the editor state   *)
(* (paragraph list, file name, mode) with its drag-end and edit handlers.  *)
(*                                                                         *)
(* Markup is a sequence of tokens.  A token is a literal piece of the      *)
(* document text; the literal searches of the code (indexOf '<w:p ',       *)
(* '<w:p>', '</w:p>', '<w:body>') are searches for tokens.  The body is    *)
(* flat: paragraph elements are not nested in each other.                  *)
(***************************************************************************)
EXTENDS Naturals, Sequences, FiniteSets, TLC

(***************************************************************************)
(* Bounds                                                                  *)
(***************************************************************************)
MaxParas == 2
MaxProcs == 2
MaxNow == 1

(***************************************************************************)
(* Tokens of the main document part                                        *)
(***************************************************************************)
Prolog7 == "<?xml v"
DocOpen == "ersion='1.0'?><w:document>"
BodyOpen == "<w:body>"
BodyOpenAttr == "<w:body a>"
POpenBare == "<w:p>"
POpenAttr == "<w:p a>"
POpenNs == "<w:p ns>"
POpenNsAttr == "<w:p ns a>"
PClose == "</w:p>"
RunA == "<w:r><w:t>A</w:t></w:r>"
RunB == "<w:r><w:t>B</w:t></w:r>"
RunSp == "<w:r><w:t> </w:t></w:r>"
RunSpA == "<w:r><w:t> A</w:t></w:r>"
SectPr == "<w:sectPr/>"
DocClose == "</w:document>"
FixedFooter == "</w:body></w:document>"

POpens == {POpenBare, POpenAttr, POpenNs, POpenNsAttr}
Runs == {RunA, RunB, RunSp, RunSpA}

(***************************************************************************)
(* Text: a string of the program is a sequence of one-character strings.   *)
(***************************************************************************)
\* textContent of a w:t element inside the token (empty for other tokens)
TextContent(tok) ==
  CASE tok = RunA -> <<"A">>
    [] tok = RunB -> <<"B">>
    [] tok = RunSp -> <<" ">>
    [] tok = RunSpA -> <<" ", "A">>
    [] OTHER -> <<>>

RECURSIVE Join(_)
Join(ss) == IF ss = <<>> THEN <<>> ELSE Head(ss) \o Join(Tail(ss))

RECURSIVE TrimStart(_)
TrimStart(s) ==
  IF s # <<>> /\ Head(s) = " " THEN TrimStart(Tail(s)) ELSE s

RECURSIVE TrimEnd(_)
TrimEnd(s) ==
  IF s # <<>> /\ s[Len(s)] = " " THEN TrimEnd(SubSeq(s, 1, Len(s) - 1)) ELSE s

Trim(s) == TrimEnd(TrimStart(s))

(***************************************************************************)
(* Literal searches: first / last index of a token satisfying a test, 0    *)
(* when there is none (the code's -1).                                     *)
(***************************************************************************)
IndexOf(xml, S) ==
  IF \E i \in 1..Len(xml) : xml[i] \in S
  THEN CHOOSE i \in 1..Len(xml) :
         xml[i] \in S /\ \A j \in 1..(i - 1) : xml[j] \notin S
  ELSE 0

LastIndexOf(xml, S) ==
  IF \E i \in 1..Len(xml) : xml[i] \in S
  THEN CHOOSE i \in 1..Len(xml) :
         xml[i] \in S /\ \A j \in (i + 1)..Len(xml) : xml[j] \notin S
  ELSE 0

\* tokens in which the literal '<w:p ' occurs, and in which '<w:p>' occurs
StartsWithSpace == {POpenAttr, POpenNs, POpenNsAttr}
StartsBare == {POpenBare}

getDocumentHeader(documentXml) ==
  LET firstParagraphIndex ==
        IF IndexOf(documentXml, StartsWithSpace) # 0
        THEN IndexOf(documentXml, StartsWithSpace)
        ELSE IndexOf(documentXml, StartsBare)
  IN IF firstParagraphIndex # 0
     THEN SubSeq(documentXml, 1, firstParagraphIndex - 1)
     ELSE IF IndexOf(documentXml, {BodyOpen}) # 0
          THEN SubSeq(documentXml, 1, IndexOf(documentXml, {BodyOpen}))
          ELSE SubSeq(documentXml, 1, 1)

\* the footer taken after the first end marker instead of the last
getDocumentFooterAfterFirst(documentXml) ==
  LET firstEnd == IndexOf(documentXml, {PClose})
  IN IF firstEnd # 0
     THEN SubSeq(documentXml, firstEnd + 1, Len(documentXml))
     ELSE <<FixedFooter>>

getDocumentFooter(documentXml) ==
  LET lastParagraphIndex == LastIndexOf(documentXml, {PClose})
  IN IF lastParagraphIndex # 0
     THEN SubSeq(documentXml, lastParagraphIndex + 1, Len(documentXml))
     ELSE <<FixedFooter>>

(***************************************************************************)
(* DOM view of the markup                                                  *)
(***************************************************************************)
\* doc.querySelector('w\\:body, body')
HasBody(documentXml) == IndexOf(documentXml, {BodyOpen, BodyOpenAttr}) # 0

\* body.querySelectorAll('w\\:p, p'): the paragraph elements in document
\* order, each as the token sequence from its start tag to its end tag
RECURSIVE ParagraphElements(_)
ParagraphElements(xml) ==
  LET i == IndexOf(xml, POpens)
      rest == SubSeq(xml, i, Len(xml))
      j == IndexOf(rest, {PClose})
  IN IF i = 0 \/ j = 0 THEN <<>>
     ELSE <<SubSeq(rest, 1, j)>> \o ParagraphElements(SubSeq(rest, j + 1, Len(rest)))

\* pElement.querySelectorAll('w\\:t, t') ... map(textContent).join('').trim()
DisplayTextOf(pElement) ==
  Trim(Join([k \in 1..Len(pElement) |-> TextContent(pElement[k])]))

\* new XMLSerializer().serializeToString(pElement): the element is written
\* on its own, so the serializer declares the w: prefix on its start tag
\* when the element does not declare it itself.
SerializeStartTag(tok) ==
  CASE tok = POpenBare -> POpenNs
    [] tok = POpenAttr -> POpenNsAttr
    [] OTHER -> tok

serializeToString(pElement) ==
  [k \in 1..Len(pElement) |->
     IF k = 1 THEN SerializeStartTag(pElement[k]) ELSE pElement[k]]


(***************************************************************************)
(* Load: WordProcessor.parseWordDocument from the DOM parse on             *)
(***************************************************************************)
\* the forEach over the paragraph elements: index counts every element,
\* elements with empty display text are skipped
\* the record with an id made of the time alone
WordParagraphOfTimeId(pElement, index, now) ==
  [id |-> <<0, now>>,
   xmlContent |-> serializeToString(pElement),
   displayText |-> DisplayTextOf(pElement),
   originalIndex |-> index]

WordParagraphOf(pElement, index, now) ==
  [id |-> <<index, now>>,
   xmlContent |-> serializeToString(pElement),
   displayText |-> DisplayTextOf(pElement),
   originalIndex |-> index]

ParseParagraphs(documentXml, now) ==
  LET body == SubSeq(documentXml, IndexOf(documentXml, {BodyOpen, BodyOpenAttr}),
                     Len(documentXml))
      paragraphElements == ParagraphElements(body)
      all == [k \in 1..Len(paragraphElements) |->
                WordParagraphOf(paragraphElements[k], k - 1, now)]
      NotEmpty(par) == par.displayText # <<>>
  IN SelectSeq(all, NotEmpty)

NoStructure == [null |-> TRUE]

\* what zipContent.file(name)?.async('text') gives for a part the package
\* does not have
Absent == <<"undefined">>

\* the part kept as read, also when the package does not have it
OrEmptyKept(part) == part

\* <part> || ''
OrEmpty(part) == IF part = Absent \/ part = <<>> THEN <<>> ELSE part

StructureOf(file, now) ==
  [headerXml |-> getDocumentHeader(file.documentXml),
   footerXml |-> getDocumentFooter(file.documentXml),
   paragraphs |-> ParseParagraphs(file.documentXml, now),
   styles |-> OrEmpty(file.stylesXml),
   relationships |-> OrEmpty(file.relationshipsXml)]

\* the error parseWordDocument throws on this file, "" when it throws none
LoadError(file) ==
  IF ~file.readable THEN "zip.loadAsync failed"
  ELSE IF file.documentXml = <<>> THEN "Invalid Word document"
  ELSE IF ~HasBody(file.documentXml) THEN "Could not find document body"
  ELSE ""

(***************************************************************************)
(* Export: WordProcessor.exportReorderedDocument                           *)
(***************************************************************************)
PartNames ==
  {"word/document.xml", "word/styles.xml", "word/_rels/document.xml.rels",
   "[Content_Types].xml", "_rels/.rels", "word/fontTable.xml",
   "word/settings.xml", "word/webSettings.xml", "docProps/app.xml",
   "docProps/core.xml"}

\* the fragments joined in the order of load instead of the order given
XmlContentsLoadOrder(reorderedParagraphs) ==
  LET n == Len(reorderedParagraphs)
      Rank(k) == Cardinality({j \in 1..n :
                   reorderedParagraphs[j].originalIndex < reorderedParagraphs[k].originalIndex})
  IN Join([r \in 1..n |->
             reorderedParagraphs[CHOOSE k \in 1..n : Rank(k) = r - 1].xmlContent])

XmlContents(reorderedParagraphs) ==
  Join([k \in 1..Len(reorderedParagraphs) |-> reorderedParagraphs[k].xmlContent])

ReorderedXml(documentStructure, reorderedParagraphs) ==
  documentStructure.headerXml \o XmlContents(reorderedParagraphs)
    \o documentStructure.footerXml

\* the archive without the styles and relationships parts when the stored
\* content of the part is empty
ZipOfSkipEmpty(documentStructure, reorderedParagraphs, now) ==
  [n \in PartNames \
          ((IF documentStructure.styles = <<>> THEN {"word/styles.xml"} ELSE {})
           \cup (IF documentStructure.relationships = <<>>
                 THEN {"word/_rels/document.xml.rels"} ELSE {})) |->
     CASE n = "word/document.xml" -> ReorderedXml(documentStructure, reorderedParagraphs)
       [] n = "word/styles.xml" -> documentStructure.styles
       [] n = "word/_rels/document.xml.rels" -> documentStructure.relationships
       [] n = "docProps/core.xml" -> <<"core", ToString(now)>>
       [] OTHER -> <<"template">>]

ZipOf(documentStructure, reorderedParagraphs, now) ==
  [n \in PartNames |->
     CASE n = "word/document.xml" -> ReorderedXml(documentStructure, reorderedParagraphs)
       [] n = "word/styles.xml" -> documentStructure.styles
       [] n = "word/_rels/document.xml.rels" -> documentStructure.relationships
       [] n = "docProps/core.xml" -> <<"core", ToString(now)>>
       [] OTHER -> <<"template">>]

NoZip == [n \in {} |-> <<>>]

(***************************************************************************)
(* arrayMove of @dnd-kit/sortable, on 1-based positions                    *)
(***************************************************************************)
RemoveAt(s, i) == SubSeq(s, 1, i - 1) \o SubSeq(s, i + 1, Len(s))

InsertAt(s, i, x) == SubSeq(s, 1, i - 1) \o <<x>> \o SubSeq(s, i, Len(s))

\* the two elements exchanged instead of one moved
arraySwap(array, from, to) ==
  [k \in 1..Len(array) |->
     IF k = from THEN array[to] ELSE IF k = to THEN array[from] ELSE array[k]]

arrayMove(array, from, to) == InsertAt(RemoveAt(array, from), to, array[from])

\* paragraphs.findIndex(p => p.id === id), 0 when there is none
FindIndex(paragraphs, id) ==
  IF \E i \in 1..Len(paragraphs) : paragraphs[i].id = id
  THEN CHOOSE i \in 1..Len(paragraphs) :
         paragraphs[i].id = id /\ \A j \in 1..(i - 1) : paragraphs[j].id # id
  ELSE 0

\* the edit applied to every paragraph
EditMapAll(prev, id, newContent) ==
  [k \in 1..Len(prev) |-> [prev[k] EXCEPT !.displayText = newContent]]

\* the edit that also rewrites the markup of the paragraph from the new text
EditMapRegenerate(prev, id, newContent) ==
  [k \in 1..Len(prev) |->
     IF prev[k].id = id
     THEN [prev[k] EXCEPT !.displayText = newContent,
                          !.xmlContent = <<prev[k].xmlContent[1],
                                           "<w:r><w:t>E</w:t></w:r>", PClose>>]
     ELSE prev[k]]

\* prev.map(p => p.id === id ? { ...p, <text>: newContent } : p)
EditMap(prev, id, newContent) ==
  [k \in 1..Len(prev) |->
     IF prev[k].id = id THEN [prev[k] EXCEPT !.displayText = newContent]
     ELSE prev[k]]


(***************************************************************************)
(* Input files                                                             *)
(***************************************************************************)
\* a paragraph element of the input: start tag, text runs, end tag
ParaShapes ==
  {<<POpenBare, RunA, PClose>>, <<POpenAttr, RunB, PClose>>,
   <<POpenBare, RunSp, PClose>>, <<POpenAttr, RunSpA, RunSp, PClose>>}

ParaSeqs(n) == UNION {[1..k -> ParaShapes] : k \in 0..n}

DocumentXmlOf(bodyOpen, paras) ==
  <<Prolog7, DocOpen, bodyOpen>> \o Join(paras) \o <<SectPr, FixedFooter>>

FileOf(ext, readable, documentXml, stylesXml, relationshipsXml) ==
  [name |-> <<"doc", ext>>, readable |-> readable, documentXml |-> documentXml,
   stylesXml |-> stylesXml, relationshipsXml |-> relationshipsXml]

OnePara == <<<<POpenAttr, RunA, PClose>>>>

GoodFiles ==
  {FileOf(".docx", TRUE, DocumentXmlOf(BodyOpen, ps), <<"styles">>, <<"rels">>) :
     ps \in ParaSeqs(MaxParas)}

AuxFiles ==
  {FileOf(".DOCX", TRUE, DocumentXmlOf(BodyOpen, OnePara), st, rl) :
     st \in {Absent, <<"styles">>}, rl \in {Absent, <<"rels">>}}

AttrBodyFiles ==
  {FileOf(".docx", TRUE, DocumentXmlOf(BodyOpenAttr, ps), <<"styles">>, <<"rels">>) :
     ps \in ParaSeqs(1)}

BadFiles ==
  {FileOf(".docx", FALSE, <<>>, Absent, Absent),
   FileOf(".docx", TRUE, <<>>, <<"styles">>, <<"rels">>),
   FileOf(".docx", TRUE, <<Prolog7, DocOpen, DocClose>>, <<"styles">>, <<"rels">>),
   FileOf(".txt", TRUE, DocumentXmlOf(BodyOpen, OnePara), <<"styles">>, <<"rels">>)}

\* the scenario document: Alpha, Beta, a whitespace-only paragraph
ScenarioParas ==
  <<<<POpenBare, RunA, PClose>>, <<POpenBare, RunB, PClose>>,
    <<POpenBare, RunSp, PClose>>>>

ScenarioFile ==
  FileOf(".docx", TRUE, DocumentXmlOf(BodyOpen, ScenarioParas), <<"styles">>, <<"rels">>)

\* a document of three paragraphs with text, to drag one past another
ThreeParas ==
  <<<<POpenAttr, RunA, PClose>>, <<POpenBare, RunB, PClose>>,
    <<POpenAttr, RunSpA, RunSp, PClose>>>>

ThreeParaFile ==
  FileOf(".docx", TRUE, DocumentXmlOf(BodyOpen, ThreeParas), <<"styles">>, <<"rels">>)

ValidFiles ==
  GoodFiles \cup AuxFiles \cup AttrBodyFiles \cup {ScenarioFile, ThreeParaFile}

\* a second document the user may have beside the first
SecondFile ==
  [FileOf(".docx", TRUE, DocumentXmlOf(BodyOpen, <<<<POpenBare, RunB, PClose>>>>),
          <<"styles2">>, <<"rels2">>) EXCEPT !.name = <<"other", ".docx">>]

\* the files the user picks from: one document, the second document and
\* the files that are no usable document
Pools == {{file, SecondFile} \cup BadFiles : file \in ValidFiles}

Times == 1..MaxNow

\* file.name.toLowerCase().endsWith('.docx')
ToLowerCase(ext) == IF ext = ".DOCX" THEN ".docx" ELSE ext

IsDocx(name) == ToLowerCase(name[2]) = ".docx"

EditTexts == {<<"E">>}

(***************************************************************************)
(* State                                                                   *)
(***************************************************************************)
VARIABLES
  proc,              \* the WordProcessor objects created so far, in order
  paragraphs,        \* editor state: the paragraph list
  originalFileName,  \* editor state: the file name
  processor,         \* editor state: index in proc of the processor, 0 if none
  mode,              \* editor state: "edit" or "drag"
  pool,              \* the files the user picks from
  last               \* the outcome of the most recent operation

vars == <<proc, paragraphs, originalFileName, processor, mode, pool, last>>

NoName == <<"", "">>

\* op: the operation; p: the processor it ran on; arg: its argument (the
\* list given to a reorder, <<id, text>> of an edit); status and error: how
\* it ended; zip and download: the archive an export produced
Outcome(op, p, arg, status, error, zip, download) ==
  [op |-> op, p |-> p, arg |-> arg, status |-> status, error |-> error,
   zip |-> zip, download |-> download]

Init ==
  /\ proc = <<>>
  /\ paragraphs = <<>>
  /\ originalFileName = NoName
  /\ processor = 0
  /\ mode = "edit"
  /\ pool \in Pools
  /\ last = Outcome("init", 0, <<>>, "ok", "", NoZip, NoName)

ProcIds == 1..Len(proc)

IdsOf(ps) == {ps[k].id : k \in 1..Len(ps)}

\* the paragraph list the holder of processor p has for it
HeldParagraphs(p) == IF p = processor THEN paragraphs ELSE proc[p].returned


(***************************************************************************)
(* FileUploader                                                            *)
(***************************************************************************)
\* handleFileChange: a non-.docx name is refused with a toast; otherwise
\* parseDocument creates a processor and its parseWordDocument suspends at
\* the first await
HandleFileChange(file) ==
  \/ /\ ~IsDocx(file.name)
     /\ last' = Outcome("select", 0, <<>>, "invalid file type", "", NoZip, file.name)
     /\ UNCHANGED <<proc, paragraphs, originalFileName, processor, mode, pool>>
  \/ /\ IsDocx(file.name)
     /\ Len(proc) < MaxProcs
     /\ proc' = Append(proc, [file |-> file, pc |-> "parsing",
                              documentStructure |-> NoStructure, returned |-> <<>>])
     /\ last' = Outcome("select", Len(proc) + 1, <<>>, "parsing", "", NoZip, file.name)
     /\ UNCHANGED <<paragraphs, originalFileName, processor, mode, pool>>

\* the load with the structure stored before the body is looked for, so
\* that a document without body leaves a structure behind
ParseDocumentStoreFirst(p, now) ==
  /\ p \in ProcIds
  /\ proc[p].pc = "parsing"
  /\ LET file == proc[p].file
     IN \/ /\ LoadError(file) # ""
           /\ proc' = [proc EXCEPT
                         ![p].pc = "rejected",
                         ![p].documentStructure =
                            IF file.readable /\ file.documentXml # <<>>
                            THEN [headerXml |-> getDocumentHeader(file.documentXml),
                                  footerXml |-> getDocumentFooter(file.documentXml),
                                  paragraphs |-> <<>>,
                                  styles |-> OrEmpty(file.stylesXml),
                                  relationships |-> OrEmpty(file.relationshipsXml)]
                            ELSE NoStructure]
           /\ last' = Outcome("load", p, <<>>, "rejected", LoadError(file), NoZip, file.name)
           /\ UNCHANGED <<paragraphs, originalFileName, processor, mode, pool>>
        \/ /\ LoadError(file) = ""
           /\ proc' = [proc EXCEPT ![p].pc = "resolved",
                                   ![p].documentStructure = StructureOf(file, now),
                                   ![p].returned = StructureOf(file, now).paragraphs]
           /\ last' = Outcome("load", p, <<>>, "resolved", "", NoZip, file.name)
           /\ IF Len(StructureOf(file, now).paragraphs) = 0
              THEN UNCHANGED <<paragraphs, originalFileName, processor, mode, pool>>
              ELSE /\ paragraphs' = StructureOf(file, now).paragraphs
                   /\ originalFileName' = file.name
                   /\ processor' = p
                   /\ UNCHANGED <<mode, pool>>

\* the load with one structure shared by all processors: a load that
\* succeeds replaces the structure of every processor that has one
ParseDocumentShared(p, now) ==
  /\ p \in ProcIds
  /\ proc[p].pc = "parsing"
  /\ LET file == proc[p].file
         documentStructure == StructureOf(file, now)
     IN \/ /\ LoadError(file) # ""
           /\ proc' = [proc EXCEPT ![p].pc = "rejected"]
           /\ last' = Outcome("load", p, <<>>, "rejected", LoadError(file), NoZip, file.name)
           /\ UNCHANGED <<paragraphs, originalFileName, processor, mode, pool>>
        \/ /\ LoadError(file) = ""
           /\ proc' = [q \in ProcIds |->
                         IF q = p
                         THEN [proc[q] EXCEPT !.pc = "resolved",
                                              !.documentStructure = documentStructure,
                                              !.returned = documentStructure.paragraphs]
                         ELSE IF proc[q].documentStructure # NoStructure
                              THEN [proc[q] EXCEPT !.documentStructure = documentStructure]
                              ELSE proc[q]]
           /\ last' = Outcome("load", p, <<>>, "resolved", "", NoZip, file.name)
           /\ IF Len(documentStructure.paragraphs) = 0
              THEN UNCHANGED <<paragraphs, originalFileName, processor, mode, pool>>
              ELSE /\ paragraphs' = documentStructure.paragraphs
                   /\ originalFileName' = file.name
                   /\ processor' = p
                   /\ UNCHANGED <<mode, pool>>

\* the load without the test for an empty list: onDocumentParsed is called
\* whenever the parse succeeds
ParseDocumentNoEmptyCheck(p, now) ==
  /\ p \in ProcIds
  /\ proc[p].pc = "parsing"
  /\ LET file == proc[p].file
         documentStructure == StructureOf(file, now)
     IN \/ /\ LoadError(file) # ""
           /\ proc' = [proc EXCEPT ![p].pc = "rejected"]
           /\ last' = Outcome("load", p, <<>>, "rejected", LoadError(file), NoZip, file.name)
           /\ UNCHANGED <<paragraphs, originalFileName, processor, mode, pool>>
        \/ /\ LoadError(file) = ""
           /\ proc' = [proc EXCEPT ![p].pc = "resolved",
                                   ![p].documentStructure = documentStructure,
                                   ![p].returned = documentStructure.paragraphs]
           /\ last' = Outcome("load", p, <<>>, "resolved", "", NoZip, file.name)
           /\ paragraphs' = documentStructure.paragraphs
           /\ originalFileName' = file.name
           /\ processor' = p
           /\ UNCHANGED <<mode, pool>>

\* the rest of parseWordDocument after its awaits, then the rest of
\* parseDocument: the catch, the empty-list toast, or onDocumentParsed
\* (handleDocumentParsed of the editor)
ParseDocument(p, now) ==
  /\ p \in ProcIds
  /\ proc[p].pc = "parsing"
  /\ LET file == proc[p].file
         documentStructure == StructureOf(file, now)
     IN \/ /\ LoadError(file) # ""
           /\ proc' = [proc EXCEPT ![p].pc = "rejected"]
           /\ last' = Outcome("load", p, <<>>, "rejected", LoadError(file), NoZip, file.name)
           /\ UNCHANGED <<paragraphs, originalFileName, processor, mode, pool>>
        \/ /\ LoadError(file) = ""
           /\ proc' = [proc EXCEPT ![p].pc = "resolved",
                                   ![p].documentStructure = documentStructure,
                                   ![p].returned = documentStructure.paragraphs]
           /\ last' = Outcome("load", p, <<>>, "resolved", "", NoZip, file.name)
           /\ IF Len(documentStructure.paragraphs) = 0
              THEN UNCHANGED <<paragraphs, originalFileName, processor, mode, pool>>
              ELSE /\ paragraphs' = documentStructure.paragraphs
                   /\ originalFileName' = file.name
                   /\ processor' = p
                   /\ UNCHANGED <<mode, pool>>

(***************************************************************************)
(* Editor                                                                  *)
(***************************************************************************)
\* ModeToggle, rendered when the list is not empty
SetMode(m) ==
  /\ Len(paragraphs) > 0
  /\ m # mode
  /\ mode' = m
  /\ last' = Outcome("mode", processor, <<>>, "ok", "", NoZip, NoName)
  /\ UNCHANGED <<proc, paragraphs, originalFileName, processor, pool>>

NoId == <<>>

\* handleDragEnd of the list, then onReorder = handleParagraphsReorder; the
\* DndContext exists in drag mode only
HandleDragEnd(active, over) ==
  /\ mode = "drag"
  /\ active \in IdsOf(paragraphs)
  /\ over \in IdsOf(paragraphs) \cup {NoId}
  /\ IF over # NoId /\ active # over
     THEN LET oldIndex == FindIndex(paragraphs, active)
              newIndex == FindIndex(paragraphs, over)
          IN /\ paragraphs' = arrayMove(paragraphs, oldIndex, newIndex)
             /\ last' = Outcome("dragEnd", processor, <<active, over>>, "reordered", "", NoZip, NoName)
     ELSE /\ UNCHANGED paragraphs
          /\ last' = Outcome("dragEnd", processor, <<active, over>>, "ignored", "", NoZip, NoName)
  /\ UNCHANGED <<proc, originalFileName, processor, mode, pool>>

\* handleSave of an item, then onEdit = handleParagraphEdit; the Edit button
\* exists in edit mode only and an item is rendered for each list element
HandleSave(id, editText) ==
  /\ mode = "edit"
  /\ id \in IdsOf(paragraphs)
  /\ paragraphs' = EditMap(paragraphs, id, editText)
  /\ last' = Outcome("edit", processor, <<id, editText>>, "ok", "", NoZip, NoName)
  /\ UNCHANGED <<proc, originalFileName, processor, mode, pool>>

(***************************************************************************)
(* Export                                                                  *)
(***************************************************************************)
DownloadName(fileName) == <<"reordered_" \o fileName[1], fileName[2]>>

\* the export without its check of the stored structure: a processor that
\* has none exports the given paragraphs between an empty header and footer
ExportReorderedDocumentNoCheck(p, now, generated) ==
  /\ p \in ProcIds
  /\ LET stored == proc[p].documentStructure
         documentStructure ==
           IF stored = NoStructure
           THEN [headerXml |-> <<>>, footerXml |-> <<>>, paragraphs |-> <<>>,
                 styles |-> <<>>, relationships |-> <<>>]
           ELSE stored
     IN IF generated
        THEN last' = Outcome("export", p, <<>>, "ok", "",
                             ZipOf(documentStructure, HeldParagraphs(p), now),
                             DownloadName(proc[p].file.name))
        ELSE last' = Outcome("export", p, <<>>, "error", "zip.generateAsync failed",
                             NoZip, NoName)
  /\ UNCHANGED <<proc, paragraphs, originalFileName, processor, mode, pool>>

\* the export that drops the stored structure when the archive cannot be
\* generated
ExportReorderedDocumentClearOnFail(p, now, generated) ==
  /\ p \in ProcIds
  /\ LET documentStructure == proc[p].documentStructure
         fileName == proc[p].file.name
     IN IF documentStructure = NoStructure
        THEN /\ last' = Outcome("export", p, <<>>, "error",
                                "No document structure available for export",
                                NoZip, NoName)
             /\ UNCHANGED proc
        ELSE IF generated
             THEN /\ last' = Outcome("export", p, <<>>, "ok", "",
                                     ZipOf(documentStructure, HeldParagraphs(p), now),
                                     DownloadName(fileName))
                  /\ UNCHANGED proc
             ELSE /\ last' = Outcome("export", p, <<>>, "error", "zip.generateAsync failed",
                                     NoZip, NoName)
                  /\ proc' = [proc EXCEPT ![p].documentStructure = NoStructure]
  /\ UNCHANGED <<paragraphs, originalFileName, processor, mode, pool>>

\* exportReorderedDocument on processor p with the list its holder has;
\* generated tells whether zip.generateAsync succeeds
ExportReorderedDocument(p, now, generated) ==
  /\ p \in ProcIds
  /\ LET documentStructure == proc[p].documentStructure
         fileName == proc[p].file.name
     IN IF documentStructure = NoStructure
        THEN last' = Outcome("export", p, <<>>, "error",
                             "No document structure available for export",
                             NoZip, NoName)
        ELSE IF generated
             THEN last' = Outcome("export", p, <<>>, "ok", "",
                                  ZipOf(documentStructure, HeldParagraphs(p), now),
                                  DownloadName(fileName))
             ELSE last' = Outcome("export", p, <<>>, "error", "zip.generateAsync failed",
                                  NoZip, NoName)
  /\ UNCHANGED <<proc, paragraphs, originalFileName, processor, mode, pool>>

Next ==
  \/ \E file \in pool : HandleFileChange(file)
  \/ \E p \in 1..MaxProcs, now \in Times : ParseDocument(p, now)
  \/ \E m \in {"edit", "drag"} : SetMode(m)
  \/ \E active \in IdsOf(paragraphs), over \in IdsOf(paragraphs) \cup {NoId} :
       HandleDragEnd(active, over)
  \/ \E id \in IdsOf(paragraphs), editText \in EditTexts : HandleSave(id, editText)
  \/ \E p \in 1..MaxProcs, now \in Times, generated \in BOOLEAN :
       ExportReorderedDocument(p, now, generated)

Spec == Init /\ [][Next]_vars


(***************************************************************************)
(* The handlers called directly, with arguments no list component passes:  *)
(* SpecApi adds them to the program.                                       *)
(***************************************************************************)
ForeignParagraph ==
  [id |-> <<7, 7>>, xmlContent |-> <<POpenNs, RunB, PClose>>,
   displayText |-> <<"B">>, originalIndex |-> 7]

Reverse(s) == [k \in 1..Len(s) |-> s[Len(s) + 1 - k]]

\* lists a caller can pass: the reversed list (a permutation), the list
\* without its first element (a missing id), with its first element twice
\* (a duplicated id), and with a foreign paragraph added (a foreign id)
ReorderArgs ==
  IF paragraphs = <<>> THEN {}
  ELSE {Reverse(paragraphs), Tail(paragraphs),
        <<Head(paragraphs)>> \o paragraphs, Append(paragraphs, ForeignParagraph)}

\* handleParagraphsReorder(newParagraphs)
HandleParagraphsReorder(newParagraphs) ==
  /\ processor # 0
  /\ Len(newParagraphs) <= MaxParas + 1
  /\ paragraphs' = newParagraphs
  /\ last' = Outcome("reorder", processor, newParagraphs, "ok", "", NoZip, NoName)
  /\ UNCHANGED <<proc, originalFileName, processor, mode, pool>>

\* handleParagraphEdit(id, newContent)
HandleParagraphEdit(id, newContent) ==
  /\ processor # 0
  /\ paragraphs' = EditMap(paragraphs, id, newContent)
  /\ last' = Outcome("edit", processor, <<id, newContent>>, "ok", "", NoZip, NoName)
  /\ UNCHANGED <<proc, originalFileName, processor, mode, pool>>

NextApi ==
  \/ Next
  \/ \E newParagraphs \in ReorderArgs : HandleParagraphsReorder(newParagraphs)
  \/ \E id \in IdsOf(paragraphs) \cup {ForeignParagraph.id}, newContent \in EditTexts :
       HandleParagraphEdit(id, newContent)

\* one document of two paragraphs is enough to call the handlers on
ApiFile ==
  FileOf(".docx", TRUE,
         DocumentXmlOf(BodyOpen, <<<<POpenBare, RunA, PClose>>, <<POpenAttr, RunB, PClose>>>>),
         <<"styles">>, <<"rels">>)

InitApi ==
  /\ proc = <<>>
  /\ paragraphs = <<>>
  /\ originalFileName = NoName
  /\ processor = 0
  /\ mode = "edit"
  /\ pool = {ApiFile, SecondFile} \cup BadFiles
  /\ last = Outcome("init", 0, <<>>, "ok", "", NoZip, NoName)

SpecApi == InitApi /\ [][NextApi]_vars


(***************************************************************************)
(* Properties                                                              *)
(***************************************************************************)
Count(s, x) == Cardinality({i \in 1..Len(s) : s[i] = x})

IsPermutation(s, t) ==
  /\ Len(s) = Len(t)
  /\ \A i \in 1..Len(s) : Count(s, s[i]) = Count(t, s[i])

IdSeq(ps) == [k \in 1..Len(ps) |-> ps[k].id]

Tokens(xml) == {xml[k] : k \in 1..Len(xml)}

ExportedOk == last.op = "export" /\ last.status = "ok"

ExportedXml == last.zip["word/document.xml"]

\* the original markup without the paragraph elements whose display text is
\* empty, each remaining element written as the serializer writes it
RECURSIVE RoundTripExpected(_)
RoundTripExpected(xml) ==
  LET i == IndexOf(xml, POpens)
      rest == SubSeq(xml, i, Len(xml))
      j == IndexOf(rest, {PClose})
      pElement == SubSeq(rest, 1, j)
  IN IF i = 0 \/ j = 0 THEN xml
     ELSE SubSeq(xml, 1, i - 1)
          \o (IF DisplayTextOf(pElement) = <<>> THEN <<>> ELSE serializeToString(pElement))
          \o RoundTripExpected(SubSeq(rest, j + 1, Len(rest)))

\* C1: exporting the paragraphs a load returned, in the order returned,
\* gives a main document part equal to the original markup without the
\* paragraph elements of empty display text: no fragment is duplicated or
\* altered.  (Stated in the form most favourable to the code: a surviving
\* fragment is compared as the serializer wrote it at load, and a load that
\* returned no paragraph is left out.)
C1_RoundTripIdentity ==
  (/\ ExportedOk
   /\ proc[last.p].returned # <<>>
   /\ IdSeq(HeldParagraphs(last.p)) = IdSeq(proc[last.p].returned))
    => ExportedXml = RoundTripExpected(proc[last.p].file.documentXml)

\* the fragment the load stored for the paragraph of this id
LoadedFragment(p, id) ==
  LET r == proc[p].returned
  IN r[CHOOSE k \in 1..Len(r) : r[k].id = id].xmlContent

C4_IdentityStability ==
  [][/\ last'.op = "dragEnd" => IsPermutation(paragraphs', paragraphs)
     /\ last'.op = "edit" =>
          /\ Len(paragraphs') = Len(paragraphs)
          /\ \A k \in 1..Len(paragraphs) :
               /\ paragraphs'[k].id = paragraphs[k].id
               /\ paragraphs'[k].xmlContent = paragraphs[k].xmlContent
               /\ paragraphs[k].id # last'.arg[1] => paragraphs'[k] = paragraphs[k]]_vars

\* a list of two paragraphs, reordered by a drag, in which one text was
\* edited and the other was not
C4_Witness ==
  /\ last.op = "edit"
  /\ Len(paragraphs) = 2
  /\ IdSeq(paragraphs) # IdSeq(proc[processor].returned)
  /\ paragraphs[1].displayText # proc[processor].returned[2].displayText
  /\ paragraphs[2].displayText = proc[processor].returned[1].displayText

\* C5: a paragraph fragment whose text-run content trims to the empty string
\* is not in the list a load returns, not in the current order, and not in
\* the exported main document part.
C5_EmptyParagraphExclusion ==
  /\ \A p \in ProcIds : \A k \in 1..Len(proc[p].returned) :
       DisplayTextOf(proc[p].returned[k].xmlContent) # <<>>
  /\ \A k \in 1..Len(paragraphs) : DisplayTextOf(paragraphs[k].xmlContent) # <<>>
  /\ ExportedOk =>
       LET exported == ParagraphElements(ExportedXml)
       IN \A k \in 1..Len(exported) : DisplayTextOf(exported[k]) # <<>>


\* the three failures of a load: archive unreadable, main document part
\* missing, no body in the markup
FailingFile(file) ==
  \/ ~file.readable
  \/ file.documentXml = <<>>
  \/ BodyOpen \notin Tokens(file.documentXml) /\ BodyOpenAttr \notin Tokens(file.documentXml)

\* C6: a load that fails raises an error; during a load and after a failed
\* one the processor has no document structure, has returned no paragraph,
\* and is not the editor's processor; a stored structure is always the
\* complete structure of a load that succeeded.
C6_LoadAllOrNothing ==
  \A p \in ProcIds :
    LET file == proc[p].file
    IN /\ proc[p].pc \in {"parsing", "rejected"} =>
            /\ proc[p].documentStructure = NoStructure
            /\ proc[p].returned = <<>>
            /\ processor # p
       /\ (FailingFile(file) /\ proc[p].pc # "parsing") => proc[p].pc = "rejected"
       /\ (last.op = "load" /\ last.p = p /\ FailingFile(file)) =>
            last.status = "rejected" /\ last.error # ""
       /\ proc[p].documentStructure # NoStructure =>
            /\ proc[p].pc = "resolved"
            /\ ~FailingFile(file)
            /\ \E now \in Times : proc[p].documentStructure = StructureOf(file, now)

\* a load has failed while the editor holds the session of one that succeeded
C6_Witness ==
  /\ last.op = "load" /\ last.status = "rejected"
  /\ FailingFile(proc[last.p].file)
  /\ \E q \in ProcIds : proc[q].pc = "resolved" /\ processor = q

\* C7: a reorder whose new order is not a permutation of the current ids
\* (missing, duplicated or foreign id) fails with InvalidPermutation and
\* leaves the order unchanged, so that the list that reaches export is
\* always a permutation of the loaded paragraphs.
C7_ReorderRejectsNonPermutation ==
  [][(last'.op = "reorder" /\ ~IsPermutation(IdSeq(last'.arg), IdSeq(paragraphs)))
       => /\ last'.status = "error"
          /\ last'.error = "InvalidPermutation"
          /\ paragraphs' = paragraphs]_vars

\* C8: an edit with an id that is not in the session fails with UnknownId
\* and leaves the session unchanged.
C8_EditUnknownIdFails ==
  [][(last'.op = "edit" /\ last'.arg[1] \notin IdsOf(paragraphs))
       => /\ last'.status = "error"
          /\ last'.error = "UnknownId"
          /\ paragraphs' = paragraphs]_vars

\* C9: an export on a processor with no successful load before it fails
\* with an error, and no part is written and no file produced; also when
\* the load on that processor failed.
C9_ExportWithoutSession ==
  (last.op = "export" /\ proc[last.p].pc # "resolved") =>
    /\ last.status = "error"
    /\ last.error = "No document structure available for export"
    /\ last.zip = NoZip
    /\ last.download = NoName

\* an export attempted on a processor whose load failed
C9_Witness ==
  /\ last.op = "export"
  /\ proc[last.p].pc = "rejected"
  /\ last.status = "error"

\* C10: a load with no surviving paragraph fails with NoParagraphsFound: it
\* does not return an empty list as success, creates no session, and a
\* later export on that processor is rejected.
C10_NoParagraphsFound ==
  \A p \in ProcIds :
    (proc[p].pc # "parsing" /\ ~FailingFile(proc[p].file)
       /\ ParseParagraphs(proc[p].file.documentXml, 1) = <<>>) =>
      /\ proc[p].pc = "rejected"
      /\ proc[p].documentStructure = NoStructure
      /\ (last.op = "export" /\ last.p = p) => last.status = "error"

Distinct(s) == \A i, j \in 1..Len(s) : s[i] = s[j] => i = j

\* C11: in every reachable state the ids of the paragraphs a load returned
\* are pairwise distinct, and the editor's list has pairwise distinct ids
\* whose set is exactly the set of ids its load assigned: no sequence of
\* drag ends and text edits adds, removes or changes an id.
C11_IdsUniqueAndFixed ==
  /\ \A p \in ProcIds : Distinct(IdSeq(proc[p].returned))
  /\ processor = 0 => paragraphs = <<>>
  /\ processor # 0 =>
       /\ Distinct(IdSeq(paragraphs))
       /\ IdsOf(paragraphs) = IdsOf(proc[processor].returned)

\* a list of two paragraphs after an edit and then a drag that moved one
C11_Witness ==
  /\ last.op = "dragEnd" /\ last.status = "reordered"
  /\ Len(paragraphs) = 2
  /\ \E k \in 1..2 : paragraphs[k].displayText \in EditTexts

\* C12: after a load the surviving paragraphs carry the originalIndex
\* values 0, 1, ..., n-1 in their surviving order, also when paragraphs of
\* empty text were dropped before or between them.
C12_OriginalIndexContiguous ==
  \A p \in ProcIds :
    \A k \in 1..Len(proc[p].returned) : proc[p].returned[k].originalIndex = k - 1

\* the part set the container format mandates
MandatedParts ==
  {"[Content_Types].xml", "_rels/.rels", "word/document.xml", "word/styles.xml",
   "word/_rels/document.xml.rels", "word/fontTable.xml", "word/settings.xml",
   "word/webSettings.xml", "docProps/app.xml", "docProps/core.xml"}

\* C13: every successful export writes exactly the ten mandated parts, none
\* missing and none extra, and a file is produced only from an archive that
\* has all ten; an export that fails produces no archive and no file.
C13_ExactPartSet ==
  /\ ExportedOk =>
       /\ DOMAIN last.zip = MandatedParts
       /\ Cardinality(DOMAIN last.zip) = 10
       /\ last.download # NoName
  /\ (last.op = "export" /\ last.status = "error") =>
       /\ last.zip = NoZip
       /\ last.download = NoName

\* a successful export of a session whose styles content is empty
C13_Witness ==
  /\ ExportedOk
  /\ proc[last.p].documentStructure.styles = <<>>
  /\ "word/styles.xml" \in DOMAIN last.zip

\* the content of an optional part as the claim states it: the content read,
\* empty when the package does not have the part
ContentRead(part) == IF part = Absent THEN <<>> ELSE part

\* C14: the styles part and the document-relationships part of an export
\* are exactly the contents read from the input package at load, whatever
\* drags and edits came between; a package that lacks either part still
\* loads, and the part is exported with empty content.
C14_AuxiliaryPartsPropagated ==
  /\ ExportedOk =>
       /\ last.zip["word/styles.xml"] = ContentRead(proc[last.p].file.stylesXml)
       /\ last.zip["word/_rels/document.xml.rels"] =
            ContentRead(proc[last.p].file.relationshipsXml)
  /\ \A p \in ProcIds :
       (proc[p].pc # "parsing" /\ ~FailingFile(proc[p].file)) => proc[p].pc = "resolved"

\* an export, after an edit, of a package that has no styles part but has a
\* relationships part
C14_Witness ==
  /\ ExportedOk
  /\ proc[last.p].file.stylesXml = Absent
  /\ proc[last.p].file.relationshipsXml # Absent
  /\ last.zip["word/styles.xml"] = <<>>
  /\ \E k \in 1..Len(HeldParagraphs(last.p)) :
       HeldParagraphs(last.p)[k].displayText \in EditTexts

\* C15: an export that fails leaves the stored structure of every processor
\* and the editor's list, file name and processor as they were, and its
\* error is the error of the step that failed; an export of the same order
\* that follows a failed one writes the main document part made of the
\* header, fragments and footer as they were when the failed one was called.
C15_FailedExportRetryable ==
  [][/\ (last'.op = "export" /\ last'.status = "error") =>
          /\ proc' = proc
          /\ paragraphs' = paragraphs
          /\ originalFileName' = originalFileName
          /\ processor' = processor
          /\ last'.error = (IF proc[last'.p].documentStructure = NoStructure
                            THEN "No document structure available for export"
                            ELSE "zip.generateAsync failed")
     /\ (/\ last.op = "export" /\ last.status = "error"
         /\ last.error = "zip.generateAsync failed"
         /\ last'.op = "export" /\ last'.status = "ok" /\ last'.p = last.p) =>
          /\ proc[last.p].documentStructure # NoStructure
          /\ last'.zip["word/document.xml"] =
               proc[last.p].documentStructure.headerXml
                 \o Join([k \in 1..Len(HeldParagraphs(last.p)) |->
                            HeldParagraphs(last.p)[k].xmlContent])
                 \o proc[last.p].documentStructure.footerXml]_vars

\* the archive of a reordered two-paragraph session could not be generated
C15_Witness ==
  /\ last.op = "export" /\ last.status = "error"
  /\ last.error = "zip.generateAsync failed"
  /\ proc[last.p].documentStructure # NoStructure
  /\ Len(HeldParagraphs(last.p)) = 2
  /\ IdSeq(HeldParagraphs(last.p)) # IdSeq(proc[last.p].returned)

\* C16: a session is consumed by one successful export: the operation that
\* follows a successful export on the same session, be it a drag end, a
\* text edit or another export, is not accepted and changes nothing.
C16_ExportConsumesSession ==
  [][(/\ ExportedOk
      /\ last'.p = last.p
      /\ last'.op \in {"dragEnd", "edit", "export"}) =>
        /\ last'.status = "error"
        /\ paragraphs' = paragraphs]_vars

\* the records of a list as the load of processor p returned them, in the
\* order of the list
Unedited(p, held) ==
  [k \in 1..Len(held) |->
     proc[p].returned[FindIndex(proc[p].returned, held[k].id)]]

ExportFromOneLoad ==
  LET p == last.p
      file == proc[p].file
      held == HeldParagraphs(p)
      header == getDocumentHeader(file.documentXml)
      footer == getDocumentFooter(file.documentXml)
      xml == last.zip["word/document.xml"]
  IN /\ \A k \in 1..Len(held) :
          \E j \in 1..Len(proc[p].returned) :
            /\ held[k].id = proc[p].returned[j].id
            /\ held[k].xmlContent = serializeToString(
                 ParagraphElements(file.documentXml)[proc[p].returned[j].originalIndex + 1])
     /\ Len(xml) = Len(header) + Len(XmlContents(held)) + Len(footer)
     /\ SubSeq(xml, 1, Len(header)) = header
     /\ SubSeq(xml, Len(xml) - Len(footer) + 1, Len(xml)) = footer
     /\ last.zip["word/styles.xml"] = ContentRead(file.stylesXml)
     /\ last.zip["word/_rels/document.xml.rels"] = ContentRead(file.relationshipsXml)

C19_HeaderFooterSplit ==
  \A p \in ProcIds :
    LET xml == proc[p].file.documentXml
        documentStructure == proc[p].documentStructure
    IN (documentStructure # NoStructure /\ IndexOf(xml, POpens) # 0) =>
         /\ documentStructure.headerXml = SubSeq(xml, 1, IndexOf(xml, POpens) - 1)
         /\ documentStructure.footerXml =
              SubSeq(xml, LastIndexOf(xml, {PClose}) + 1, Len(xml))
         /\ Tokens(documentStructure.headerXml) \cap (POpens \cup {PClose}) = {}

\* C20: for markup without a paragraph the stored header is the markup up
\* to the end of the body start tag and the stored footer is the fixed
\* closing of body and document, also when the body start tag is not the
\* literal <w:body>.  (The header is taken to include the body start tag,
\* as the export needs it.)
C20_DegenerateSplit ==
  \A p \in ProcIds :
    LET xml == proc[p].file.documentXml
        documentStructure == proc[p].documentStructure
    IN (documentStructure # NoStructure /\ IndexOf(xml, POpens) = 0) =>
         /\ documentStructure.headerXml =
              SubSeq(xml, 1, IndexOf(xml, {BodyOpen, BodyOpenAttr}))
         /\ documentStructure.footerXml = <<FixedFooter>>

\* the list without the paragraph of this id
WithoutId(ps, id) ==
  LET Other(par) == par.id # id
  IN SelectSeq(ps, Other)

\* C21: a drag end whose drop target is absent or is the dragged paragraph
\* itself calls no reorder and leaves the list as it is; any other drag end
\* reorders once, to a list of the same length and the same paragraphs in
\* which the dragged paragraph is at the position the target had and the
\* other paragraphs keep their relative order.  No drag end is delivered in
\* edit mode, so while the mode is edit the order of the list changes by no
\* step (a completed load, which replaces the list by another document's,
\* aside).
C21_DragEnd ==
  [][/\ last'.op = "dragEnd" =>
          LET active == last'.arg[1]
              over == last'.arg[2]
          IN /\ mode = "drag"
             /\ (over = NoId \/ over = active) =>
                  /\ last'.status = "ignored"
                  /\ paragraphs' = paragraphs
             /\ (over # NoId /\ over # active) =>
                  /\ last'.status = "reordered"
                  /\ Len(paragraphs') = Len(paragraphs)
                  /\ IsPermutation(paragraphs', paragraphs)
                  /\ paragraphs'[FindIndex(paragraphs, over)].id = active
                  /\ WithoutId(paragraphs', active) = WithoutId(paragraphs, active)
     /\ (mode = "edit" /\ mode' = "edit" /\ last'.op # "load") =>
          IdSeq(paragraphs') = IdSeq(paragraphs)]_vars

\* the first of three paragraphs was dropped on the third: it is now last
\* and the two others have moved up in their order
C21_Witness ==
  /\ last.op = "dragEnd" /\ last.status = "reordered"
  /\ processor # 0
  /\ Len(proc[processor].returned) = 3
  /\ last.arg = <<proc[processor].returned[1].id, proc[processor].returned[3].id>>
  /\ IdSeq(paragraphs) = <<proc[processor].returned[2].id,
                           proc[processor].returned[3].id,
                           proc[processor].returned[1].id>>

\* C22: loads may overlap.  A parse that completes with paragraphs gives the
\* editor the list, the file name and the processor of one and the same
\* file, whatever other parse is suspended or has completed, so the editor
\* holds the document whose parse completed last; a parse that fails or
\* finds no paragraph, and a selection (refused for its name or starting a
\* parse), leave the editor's list, file name and processor as they were.
C22_OverlappingLoads ==
  [][/\ (/\ last'.op = "load" /\ last'.status = "resolved"
         /\ proc'[last'.p].returned # <<>>) =>
          LET file == proc[last'.p].file
          IN /\ processor' = last'.p
             /\ originalFileName' = file.name
             /\ paragraphs' = proc'[last'.p].returned
             /\ \E now \in Times : paragraphs' = ParseParagraphs(file.documentXml, now)
     /\ (\/ last'.op = "select"
         \/ /\ last'.op = "load"
            /\ (last'.status = "rejected" \/ proc'[last'.p].returned = <<>>)) =>
          /\ paragraphs' = paragraphs
          /\ originalFileName' = originalFileName
          /\ processor' = processor]_vars

\* the parse of the file selected first completed after the parse of the
\* file selected second: the editor holds the first file's document
C22_Witness ==
  /\ last.op = "load" /\ last.status = "resolved" /\ last.p = 1
  /\ Len(proc) = 2
  /\ proc[2].pc = "resolved" /\ proc[2].returned # <<>>
  /\ proc[2].file.name # proc[1].file.name
  /\ processor = 1
  /\ originalFileName = proc[1].file.name
  /\ paragraphs = proc[1].returned

====
